---- MODULE Spec2Model ----
(***************************************************************************)
(* Model of the Company Profile Chatbot (src/main.py).                     *)
(*                                                                         *)
(* RAGApp.main is a Streamlit script: every user interaction with a widget *)
(* of the page re-runs the whole script against st.session_state.  One     *)
(* action of this model is one such interaction followed by the complete   *)
(* run of main(): the navigation buttons and then the six stage blocks, in *)
(* source order, each looking at the conversation_stage the blocks before  *)
(* it have left.  An adapter that raises ends the run where it raises; the *)
(* assignments made to the session state before that point stay.           *)
(*                                                                         *)
(* Python strings are TLA+ strings, except the e-mail address, which is a  *)
(* sequence of one-character strings so that validate_email can look at    *)
(* its characters; Str joins it back into a string for the f-strings.      *)
(***************************************************************************)
EXTENDS Integers, Sequences, FiniteSets, TLC

VARIABLES session_state, widgets, rendered, event, trace, raised

vars == <<session_state, widgets, rendered, event, trace, raised>>

-----------------------------------------------------------------------------
(* Bounds *)

\* Longest message log the model explores.
MaxMessages == 8

-----------------------------------------------------------------------------
(* Values *)

\* Python's None (a value no text domain below contains).
None == "None"

\* Uploaded PDF files the user can put in the file uploader.
Files == {"a.pdf"}

\* Contents of the file uploader: lists of distinct uploaded files.
FileLists == {<<>>} \cup {<<f>> : f \in Files}
               \cup {<<f, g>> : <<f, g>> \in {p \in Files \X Files : p[1] # p[2]}}

\* Texts the hosted model can return for the overview prompt.
Overviews == {"Acme Corp sells widgets.", "Widgets."}

\* Texts the hosted model can return as the answer to a question.
Answers == {"Widgets."}

\* Questions the user can type (the empty string is the cleared input).
Questions == {"What do you sell?"}

\* E-mail addresses the user can type, as character sequences.
user_example_com ==
    <<"u","s","e","r","@","e","x","a","m","p","l","e",".","c","o","m">>
bad_email == <<"b","a","d","-","e","m","a","i","l">>
Emails == {user_example_com, bad_email}

\* Adapter calls that can raise during a run ("none": all succeed).
Failures == {"none", "process_pdf", "get_vectorstore", "get_conversation_chain",
             "generate_company_overview", "conversation"}

\* What the external collaborators do during one run.
Oracles == [fail : Failures, overview : Overviews, answer : Answers]

-----------------------------------------------------------------------------
(* Session state *)

session_defaults ==
    [conversation       |-> None,
     chat_history       |-> <<>>,
     processed_pdfs     |-> FALSE,
     company_overview   |-> None,
     conversation_stage |-> "initial",
     email              |-> None,
     messages           |-> <<>>]

Stages == {"initial", "overview", "details", "offer_profile",
           "collect_email", "complete"}

\* Values the input widgets hold when they are first rendered.
widget_defaults ==
    [pdf_docs      |-> <<>>,
     want_more     |-> "Yes",
     user_question |-> "",
     email_option  |-> "Yes",
     email         |-> <<>>]

-----------------------------------------------------------------------------
(* Helpers of RAGApp and PDFProcessor *)

RECURSIVE Str(_)
\* The Python string of a character sequence (used by the f-strings).
Str(s) == IF s = <<>> THEN "" ELSE Head(s) \o Str(Tail(s))

Lower == {"a","b","c","d","e","f","g","h","i","j","k","l","m",
          "n","o","p","q","r","s","t","u","v","w","x","y","z"}
Upper == {"A","B","C","D","E","F","G","H","I","J","K","L","M",
          "N","O","P","Q","R","S","T","U","V","W","X","Y","Z"}
Digits == {"0","1","2","3","4","5","6","7","8","9"}
LocalChars == Lower \cup Upper \cup Digits \cup {".", "_", "%", "+", "-"}
DomainChars == Lower \cup Upper \cup Digits \cup {".", "-"}
TldChars == Lower \cup Upper

\* All characters of s from position i to position j are in class cls.
AllIn(s, i, j, cls) == \A k \in i..j : s[k] \in cls

\* re.match(r'^[a-zA-Z0-9._%+-]+@[a-zA-Z0-9.-]+\.[a-zA-Z]{2,}$', email):
\* some split local @ domain . tld matches; '$' also matches just before
\* a newline that ends the string.
validate_email(email) ==
    \E n \in {Len(email)} \cup
             {m \in {Len(email) - 1} : m >= 0 /\ email[Len(email)] = "\n"} :
      \E at \in 2..n : \E dot \in (at + 2)..(n - 2) :
         /\ AllIn(email, 1, at - 1, LocalChars)
         /\ email[at] = "@"
         /\ AllIn(email, at + 1, dot - 1, DomainChars)
         /\ email[dot] = "."
         /\ AllIn(email, dot + 1, n, TldChars)

\* Dummy email sending function: always reports success.
mock_send_email(email) == TRUE

\* add_message putting the newest message first.
add_message_Prepends(ss, role, message) ==
    [ss EXCEPT !.messages = <<[role |-> role, message |-> message]>> \o @]

add_message(ss, role, message) ==
    [ss EXCEPT !.messages = Append(@, [role |-> role, message |-> message])]

\* Chunks of one uploaded PDF.
process_pdf(pdf_file) == <<pdf_file \o "#0">>

RECURSIVE all_chunks(_)
\* [chunk for pdf in pdf_docs for chunk in process_pdf(pdf)]
all_chunks(pdf_docs) ==
    IF pdf_docs = <<>> THEN <<>>
    ELSE process_pdf(Head(pdf_docs)) \o all_chunks(Tail(pdf_docs))

get_vectorstore(chunks) == "FAISS[" \o Str(chunks) \o "]"

get_conversation_chain(vectorstore) ==
    "ConversationalRetrievalChain(" \o vectorstore \o ")"

-----------------------------------------------------------------------------
(* One run of RAGApp.main.                                                 *)
(*                                                                         *)
(* A run carries c = [ss, rendered, trace, raised]: the session state so   *)
(* far, the widgets drawn so far, the adapter calls and error boxes so     *)
(* far, and the exception that ended the run ("none" while it is going).   *)
(* w holds the widget values the script reads, clicked the button whose    *)
(* click caused the run ("none" for a value change), orc the adapters.     *)

\* NavigationButtons drawing and obeying all four buttons before any PDF is
\* processed.
NavigationButtons_Unlocked(c, clicked) ==
    LET drawn == {"Upload Documents", "Company Overview", "Ask Questions",
                  "Get Profile"}
        stage == CASE clicked = "Upload Documents" -> "initial"
                   [] clicked = "Company Overview" -> "overview"
                   [] clicked = "Ask Questions" -> "details"
                   [] clicked = "Get Profile" -> "offer_profile"
                   [] OTHER -> c.ss.conversation_stage
    IN [c EXCEPT !.rendered = @ \cup drawn,
                 !.ss.conversation_stage = stage]

\* Navigation buttons: the last three are drawn only once PDFs are processed.
NavigationButtons(c, clicked) ==
    LET unlocked == c.ss.processed_pdfs
        drawn == {"Upload Documents"} \cup
                 (IF unlocked
                  THEN {"Company Overview", "Ask Questions", "Get Profile"}
                  ELSE {})
        stage == CASE clicked = "Upload Documents" -> "initial"
                   [] unlocked /\ clicked = "Company Overview" -> "overview"
                   [] unlocked /\ clicked = "Ask Questions" -> "details"
                   [] unlocked /\ clicked = "Get Profile" -> "offer_profile"
                   [] OTHER -> c.ss.conversation_stage
    IN [c EXCEPT !.rendered = @ \cup drawn,
                 !.ss.conversation_stage = stage]

\* ProcessPDFs keeping the overview of the first upload of the session.
ProcessPDFs_KeepsOverview(c, pdf_docs, orc) ==
    LET chain == get_conversation_chain(get_vectorstore(all_chunks(pdf_docs)))
        ss1 == [c.ss EXCEPT !.conversation = chain, !.processed_pdfs = TRUE,
                            !.company_overview =
                                IF @ = None THEN orc.overview ELSE @]
        ss2 == add_message(ss1, "system",
                           "Company documents processed successfully!")
    IN [c EXCEPT !.ss = [ss2 EXCEPT !.conversation_stage = "overview"],
                 !.trace = Append(@, <<"generate_company_overview", chain,
                                       <<>>, orc.overview>>)]

\* ProcessPDFs starting a new exchange history for the new documents.
ProcessPDFs_ClearsHistory(c, pdf_docs, orc) ==
    LET chain == get_conversation_chain(get_vectorstore(all_chunks(pdf_docs)))
        ss1 == [c.ss EXCEPT !.conversation = chain, !.processed_pdfs = TRUE,
                            !.company_overview = orc.overview,
                            !.chat_history = <<>>]
        ss2 == add_message(ss1, "system",
                           "Company documents processed successfully!")
    IN [c EXCEPT !.ss = [ss2 EXCEPT !.conversation_stage = "overview"],
                 !.trace = Append(@, <<"generate_company_overview", chain,
                                       <<>>, orc.overview>>)]

\* ProcessPDFs raising the processed flag before the documents are read.
ProcessPDFs_FlagFirst(c, pdf_docs, orc) ==
    LET chunks == all_chunks(pdf_docs)
        vectorstore == get_vectorstore(chunks)
        chain == get_conversation_chain(vectorstore)
        t1 == Append(c.trace, <<"process_pdf", <<pdf_docs[1]>>>>)
        t2 == Append(c.trace, <<"process_pdf", pdf_docs>>)
        t3 == Append(t2, <<"get_vectorstore", chunks>>)
        t4 == Append(t3, <<"get_conversation_chain", vectorstore>>)
        t5 == Append(t4, <<"generate_company_overview", chain, <<>>,
                           orc.overview>>)
        t5x == Append(t4, <<"generate_company_overview", chain, <<>>, None>>)
        ss0 == [c.ss EXCEPT !.processed_pdfs = TRUE]
        ss1 == [ss0 EXCEPT !.conversation = chain]
        ss2 == [ss1 EXCEPT !.company_overview = orc.overview]
        ss3 == add_message(ss2, "system",
                           "Company documents processed successfully!")
        ss4 == [ss3 EXCEPT !.conversation_stage = "overview"]
    IN CASE orc.fail = "process_pdf" ->
              [c EXCEPT !.ss = ss0, !.trace = t1, !.raised = "IngestionError"]
         [] orc.fail = "get_vectorstore" ->
              [c EXCEPT !.ss = ss0, !.trace = t3, !.raised = "IndexError"]
         [] orc.fail = "get_conversation_chain" ->
              [c EXCEPT !.ss = ss0, !.trace = t4, !.raised = "IndexError"]
         [] orc.fail = "generate_company_overview" ->
              [c EXCEPT !.ss = ss1, !.trace = t5x, !.raised = "GenerationError"]
         [] OTHER ->
              [c EXCEPT !.ss = ss4, !.trace = t5]

\* The body of the "Process PDFs" branch.
ProcessPDFs(c, pdf_docs, orc) ==
    LET chunks == all_chunks(pdf_docs)
        vectorstore == get_vectorstore(chunks)
        chain == get_conversation_chain(vectorstore)
        t1 == Append(c.trace, <<"process_pdf", <<pdf_docs[1]>>>>)
        t2 == Append(c.trace, <<"process_pdf", pdf_docs>>)
        t3 == Append(t2, <<"get_vectorstore", chunks>>)
        t4 == Append(t3, <<"get_conversation_chain", vectorstore>>)
        t5 == Append(t4, <<"generate_company_overview", chain, <<>>,
                           orc.overview>>)
        t5x == Append(t4, <<"generate_company_overview", chain, <<>>, None>>)
        ss1 == [c.ss EXCEPT !.conversation = chain, !.processed_pdfs = TRUE]
        ss2 == [ss1 EXCEPT !.company_overview = orc.overview]
        ss3 == add_message(ss2, "system",
                           "Company documents processed successfully!")
        ss4 == [ss3 EXCEPT !.conversation_stage = "overview"]
    IN CASE orc.fail = "process_pdf" ->
              [c EXCEPT !.trace = t1, !.raised = "IngestionError"]
         [] orc.fail = "get_vectorstore" ->
              [c EXCEPT !.trace = t3, !.raised = "IndexError"]
         [] orc.fail = "get_conversation_chain" ->
              [c EXCEPT !.trace = t4, !.raised = "IndexError"]
         [] orc.fail = "generate_company_overview" ->
              [c EXCEPT !.ss = ss1, !.trace = t5x, !.raised = "GenerationError"]
         [] OTHER ->
              [c EXCEPT !.ss = ss4, !.trace = t5]

\* PDF Upload Stage.
UploadStage(c, w, clicked, orc) ==
    IF c.raised # "none" \/ c.ss.conversation_stage # "initial" THEN c
    ELSE LET c1 == [c EXCEPT !.rendered = @ \cup {"pdf_docs", "Process PDFs"}]
         IN IF clicked = "Process PDFs" /\ w.pdf_docs # <<>>
            THEN ProcessPDFs(c1, w.pdf_docs, orc)
            ELSE c1

\* OverviewStage logging the overview every time it is drawn.
OverviewStage_LogsAgain(c, w) ==
    IF \/ c.raised # "none"
       \/ ~c.ss.processed_pdfs
       \/ c.ss.conversation_stage # "overview"
    THEN c
    ELSE LET ss1 == add_message(c.ss, "system", c.ss.company_overview)
             ss2 == IF w.want_more = "Yes"
                    THEN [add_message(ss1, "user",
                                      "Want to know more about the company")
                            EXCEPT !.conversation_stage = "details"]
                    ELSE ss1
         IN [c EXCEPT !.rendered = @ \cup {"want_more"}, !.ss = ss2]

\* Company Overview Stage.
OverviewStage(c, w) ==
    IF \/ c.raised # "none"
       \/ ~c.ss.processed_pdfs
       \/ c.ss.conversation_stage # "overview"
    THEN c
    ELSE LET overview == c.ss.company_overview
             present == \E i \in 1..Len(c.ss.messages) :
                           c.ss.messages[i].message = overview
             ss1 == IF present THEN c.ss
                    ELSE add_message(c.ss, "system", overview)
             ss2 == IF w.want_more = "Yes"
                    THEN [add_message(ss1, "user",
                                      "Want to know more about the company")
                            EXCEPT !.conversation_stage = "details"]
                    ELSE ss1
         IN [c EXCEPT !.rendered = @ \cup {"want_more"}, !.ss = ss2]

\* DetailsStage recording the exchange before it calls the chain, so that
\* the chain is given a history that already holds the new question.
DetailsStage_HistoryFirst(c, w, clicked, orc) ==
    IF c.raised # "none" \/ c.ss.conversation_stage # "details" THEN c
    ELSE LET q == w.user_question
             c1 == [c EXCEPT !.rendered = @ \cup
                        {"user_question", "I'd like the full company profile"}]
             recorded == Append(c1.ss.chat_history, <<q, orc.answer>>)
             answered ==
                 [add_message(add_message(c1.ss, "user", q),
                              "system", orc.answer)
                    EXCEPT !.chat_history = recorded]
             c2 == IF q = "" THEN c1
                   ELSE [c1 EXCEPT
                           !.ss = answered,
                           !.trace = Append(@, <<"conversation",
                                                 c1.ss.conversation, q,
                                                 recorded, orc.answer>>)]
         IN [c2 EXCEPT !.ss.conversation_stage =
                          IF clicked = "I'd like the full company profile"
                          THEN "offer_profile" ELSE @]

\* DetailsStage asking the chain whatever the input holds, also nothing.
DetailsStage_AsksEmpty(c, w, clicked, orc) ==
    IF c.raised # "none" \/ c.ss.conversation_stage # "details" THEN c
    ELSE LET q == w.user_question
             c1 == [c EXCEPT !.rendered = @ \cup
                        {"user_question", "I'd like the full company profile"}]
             answered ==
                 [add_message(add_message(c1.ss, "user", q),
                              "system", orc.answer)
                    EXCEPT !.chat_history = Append(@, <<q, orc.answer>>)]
             c2 == [c1 EXCEPT
                      !.ss = answered,
                      !.trace = Append(@, <<"conversation", c1.ss.conversation,
                                            q, c1.ss.chat_history, orc.answer>>)]
         IN [c2 EXCEPT !.ss.conversation_stage =
                          IF clicked = "I'd like the full company profile"
                          THEN "offer_profile" ELSE @]

\* Details Exploration Stage.
DetailsStage(c, w, clicked, orc) ==
    IF c.raised # "none" \/ c.ss.conversation_stage # "details" THEN c
    ELSE LET q == w.user_question
             c1 == [c EXCEPT !.rendered = @ \cup {"user_question"}]
             asked == add_message(c1.ss, "user", q)
             call == <<"conversation", c1.ss.conversation, q,
                       c1.ss.chat_history, orc.answer>>
             callx == <<"conversation", c1.ss.conversation, q,
                        c1.ss.chat_history, None>>
             answered ==
                 [add_message(asked, "system", orc.answer)
                    EXCEPT !.chat_history = Append(@, <<q, orc.answer>>)]
             c2 == IF q = "" THEN c1
                   ELSE IF orc.fail = "conversation" \/ c1.ss.conversation = None
                   THEN [c1 EXCEPT !.ss = asked,
                                   !.trace = Append(@, callx),
                                   !.raised = IF c1.ss.conversation = None
                                              THEN "TypeError"
                                              ELSE "GenerationError"]
                   ELSE [c1 EXCEPT !.ss = answered,
                                   !.trace = Append(@, call)]
         IN IF c2.raised # "none" THEN c2
            ELSE [c2 EXCEPT
                    !.rendered = @ \cup {"I'd like the full company profile"},
                    !.ss.conversation_stage =
                        IF clicked = "I'd like the full company profile"
                        THEN "offer_profile" ELSE @]

\* Profile Offer Stage.
ProfileOfferStage(c, w) ==
    IF c.raised # "none" \/ c.ss.conversation_stage # "offer_profile" THEN c
    ELSE [c EXCEPT
            !.rendered = @ \cup {"email_option"},
            !.ss = IF w.email_option = "Yes"
                   THEN [add_message(c.ss, "user",
                                     "Interested in receiving company profile")
                           EXCEPT !.conversation_stage = "collect_email"]
                   ELSE add_message(c.ss, "system",
                                    "User declined company profile")]

\* EmailCollectionStage logging the confirmation before the user's entry.
EmailCollectionStage_SentFirst(c, w, clicked) ==
    IF c.raised # "none" \/ c.ss.conversation_stage # "collect_email" THEN c
    ELSE LET email == w.email
             c1 == [c EXCEPT !.rendered = @ \cup {"email", "Confirm Email"}]
             sent == add_message(
                        add_message(c1.ss, "system",
                                    "Company profile sent to " \o Str(email)),
                        "user", "Email provided: " \o Str(email))
         IN IF clicked # "Confirm Email" THEN c1
            ELSE IF validate_email(email)
            THEN [c1 EXCEPT
                    !.trace = Append(@, <<"mock_send_email", email>>),
                    !.ss = [sent EXCEPT !.conversation_stage = "complete"]]
            ELSE [c1 EXCEPT
                    !.trace = Append(@, <<"st.error",
                                  "Please enter a valid email address.">>)]

\* EmailCollectionStage writing the rejected address to the log.
EmailCollectionStage_LogsInvalid(c, w, clicked) ==
    IF c.raised # "none" \/ c.ss.conversation_stage # "collect_email" THEN c
    ELSE LET email == w.email
             c1 == [c EXCEPT !.rendered = @ \cup {"email", "Confirm Email"}]
             given == add_message(c1.ss, "user",
                                  "Email provided: " \o Str(email))
             sent == add_message(given, "system",
                                 "Company profile sent to " \o Str(email))
         IN IF clicked # "Confirm Email" THEN c1
            ELSE IF validate_email(email)
            THEN [c1 EXCEPT
                    !.trace = Append(@, <<"mock_send_email", email>>),
                    !.ss = [sent EXCEPT !.conversation_stage = "complete"]]
            ELSE [c1 EXCEPT
                    !.ss = given,
                    !.trace = Append(@, <<"st.error",
                                  "Please enter a valid email address.">>)]

\* EmailCollectionStage moving on to complete whatever the address is.
EmailCollectionStage_CompletesAnyway(c, w, clicked) ==
    IF c.raised # "none" \/ c.ss.conversation_stage # "collect_email" THEN c
    ELSE LET email == w.email
             c1 == [c EXCEPT !.rendered = @ \cup {"email", "Confirm Email"}]
             sent == add_message(
                        add_message(c1.ss, "user",
                                    "Email provided: " \o Str(email)),
                        "system", "Company profile sent to " \o Str(email))
         IN IF clicked # "Confirm Email" THEN c1
            ELSE IF validate_email(email)
            THEN [c1 EXCEPT
                    !.trace = Append(@, <<"mock_send_email", email>>),
                    !.ss = [sent EXCEPT !.conversation_stage = "complete"]]
            ELSE [c1 EXCEPT
                    !.trace = Append(@, <<"st.error",
                                  "Please enter a valid email address.">>),
                    !.ss.conversation_stage = "complete"]

\* Email Collection Stage.
EmailCollectionStage(c, w, clicked) ==
    IF c.raised # "none" \/ c.ss.conversation_stage # "collect_email" THEN c
    ELSE LET email == w.email
             c1 == [c EXCEPT !.rendered = @ \cup {"email", "Confirm Email"}]
             sent == add_message(
                        add_message(c1.ss, "user",
                                    "Email provided: " \o Str(email)),
                        "system", "Company profile sent to " \o Str(email))
         IN IF clicked # "Confirm Email" THEN c1
            ELSE IF validate_email(email)
            THEN IF mock_send_email(email)
                 THEN [c1 EXCEPT
                         !.trace = Append(@, <<"mock_send_email", email>>),
                         !.ss = [sent EXCEPT !.conversation_stage = "complete"]]
                 ELSE [c1 EXCEPT
                         !.trace = Append(@, <<"mock_send_email", email>>)]
            ELSE [c1 EXCEPT
                    !.trace = Append(@, <<"st.error",
                                  "Please enter a valid email address.">>)]

\* CompletionStage starting the conversation over when it is drawn again
\* after the completion has been logged.
CompletionStage_Restarts(c) ==
    IF c.raised # "none" \/ c.ss.conversation_stage # "complete" THEN c
    ELSE LET n == Len(c.ss.messages)
         IN IF n > 0 /\ c.ss.messages[n].message = "Conversation completed"
            THEN [c EXCEPT !.ss.conversation_stage = "initial"]
            ELSE [c EXCEPT !.ss = add_message(@, "system",
                                              "Conversation completed")]

\* Completion Stage.
CompletionStage(c) ==
    IF c.raised # "none" \/ c.ss.conversation_stage # "complete" THEN c
    ELSE [c EXCEPT !.ss = add_message(@, "system", "Conversation completed")]

\* RAGApp.main: the blocks in source order.
main(ss, w, clicked, orc) ==
    CompletionStage(
      EmailCollectionStage(
        ProfileOfferStage(
          DetailsStage(
            OverviewStage(
              UploadStage(
                NavigationButtons(
                  [ss |-> ss, rendered |-> {}, trace |-> <<>>,
                   raised |-> "none"],
                  clicked),
                w, clicked, orc),
              w),
            w, clicked, orc),
          w),
        w, clicked))

-----------------------------------------------------------------------------
(* The session: user interactions, each followed by a run of main.         *)

\* The adapters all succeeding, with some texts.
AllSucceed ==
    [fail |-> "none", overview |-> "Widgets.", answer |-> "Widgets."]

\* The first run of the script, on the session defaults.
FirstRun == main(session_defaults, widget_defaults, "none", AllSucceed)

Init ==
    /\ session_state = FirstRun.ss
    /\ widgets = widget_defaults
    /\ rendered = FirstRun.rendered
    /\ event = [widget |-> "load", value |-> ""]
    /\ trace = FirstRun.trace
    /\ raised = FirstRun.raised

\* The adapter behaviours that can make a difference to a run: only a call
\* the run makes can raise, and only a generator it calls returns a text.
OraclesFor(ss, w, clicked) ==
    LET calls == main(ss, w, clicked, AllSucceed).trace
        made == {calls[i][1] : i \in 1..Len(calls)}
    IN {orc \in Oracles :
          /\ orc.fail \in made \cup {"none"}
          /\ orc.overview # AllSucceed.overview
                => "generate_company_overview" \in made
          /\ orc.answer # AllSucceed.answer => "conversation" \in made}

\* The script runs on widget values w after the interaction ev.  A widget
\* the run does not draw loses its value and starts from its default the
\* next time it is drawn.
Rerun(w, clicked, ev) ==
    \E orc \in OraclesFor(session_state, w, clicked) :
       \E r \in {main(session_state, w, clicked, orc)} :
          /\ Len(r.ss.messages) <= MaxMessages
          /\ session_state' = r.ss
          /\ rendered' = r.rendered
          /\ widgets' = [id \in DOMAIN w |->
                           IF id \in r.rendered THEN w[id]
                           ELSE widget_defaults[id]]
          /\ trace' = r.trace
          /\ raised' = r.raised
          /\ event' = ev

\* A click on a button the page shows.
Click(button) ==
    /\ button \in rendered
    /\ Rerun(widgets, button, [widget |-> button, value |-> ""])

\* A new value v entered in an input widget the page shows.
Change(id, v) ==
    /\ id \in rendered
    /\ v # widgets[id]
    /\ Rerun([widgets EXCEPT ![id] = v], "none", [widget |-> id, value |-> v])

ClickUploadDocuments == Click("Upload Documents")

ClickCompanyOverview == Click("Company Overview")

ClickAskQuestions == Click("Ask Questions")

ClickGetProfile == Click("Get Profile")

ChoosePdfDocs == \E v \in FileLists : Change("pdf_docs", v)

ClickProcessPDFs == Click("Process PDFs")

ChooseWantMore == \E v \in {"Yes", "No"} : Change("want_more", v)

EnterQuestion == \E v \in Questions \cup {""} : Change("user_question", v)

ClickFullProfile == Click("I'd like the full company profile")

ChooseEmailOption == \E v \in {"Yes", "No"} : Change("email_option", v)

EnterEmail == \E v \in Emails \cup {<<>>} : Change("email", v)

ClickConfirmEmail == Click("Confirm Email")

Next ==
    \/ ClickUploadDocuments
    \/ ClickCompanyOverview
    \/ ClickAskQuestions
    \/ ClickGetProfile
    \/ ChoosePdfDocs
    \/ ClickProcessPDFs
    \/ ChooseWantMore
    \/ EnterQuestion
    \/ ClickFullProfile
    \/ ChooseEmailOption
    \/ EnterEmail
    \/ ClickConfirmEmail

Spec == Init /\ [][Next]_vars

-----------------------------------------------------------------------------
(* Properties *)

stage == session_state.conversation_stage
messages == session_state.messages
chat_history == session_state.chat_history
company_overview == session_state.company_overview

TypeOK ==
    /\ stage \in Stages
    /\ session_state.processed_pdfs \in BOOLEAN
    /\ Len(messages) <= MaxMessages

\* s is an initial part of t.
IsPrefix(s, t) == Len(s) <= Len(t) /\ SubSeq(t, 1, Len(s)) = s

NavigationLabels ==
    {"Upload Documents", "Company Overview", "Ask Questions", "Get Profile"}

\* Positions of the calls of an adapter in the last run.
CallsOf(name) == {i \in 1..Len(trace) : trace[i][1] = name}

\* The call at position i of the last run returned (did not raise).
Returned(i) == ~(i = Len(trace) /\ raised # "none")

\* The last run assigned company_overview (line 135 was completed).
OverviewAssigned ==
    \E i \in CallsOf("generate_company_overview") : Returned(i)

\* The text the overview generator returned in the last run.
OverviewReturned ==
    trace[CHOOSE i \in CallsOf("generate_company_overview") : TRUE][4]

-----------------------------------------------------------------------------
\* C1: a successful Process PDFs run from the upload stage with a
\* non-empty file list, the generator returning T, ends with stage =
\* overview, company_overview = T and exactly one system entry with text T
\* in the message log.
C1_UploadEndsInOverview ==
    (event.widget = "Process PDFs" /\ raised = "none" /\ OverviewAssigned)
       => /\ stage = "overview"
          /\ company_overview = OverviewReturned
          /\ Cardinality({i \in 1..Len(messages) :
                 messages[i] = [role |-> "system",
                                message |-> OverviewReturned]}) = 1

\* What the code does on the first successful upload of a session.
C1_FirstUploadEndsInDetails ==
    /\ event.widget = "Process PDFs"
    /\ stage = "details"
    /\ company_overview = "Acme Corp sells widgets."
    /\ messages =
         <<[role |-> "system",
            message |-> "Company documents processed successfully!"],
           [role |-> "system", message |-> "Acme Corp sells widgets."],
           [role |-> "user",
            message |-> "Want to know more about the company"]>>

\* C2 as stated: once stage = complete, no action changes the stage.
C2_CompleteIsTerminal ==
    [][stage = "complete" => stage' = "complete"]_vars

\* C2 as amended: once stage = complete, no action other than a click on
\* a navigation button changes the stage.
C2_CompleteLeftOnlyByNavigation ==
    [][(stage = "complete" /\ event'.widget \notin NavigationLabels)
          => stage' = "complete"]_vars

\* A run that started and ended in complete: it logged the completion
\* message a second time.
C2_StayedComplete ==
    /\ stage = "complete"
    /\ event.widget \notin NavigationLabels
    /\ Len(messages) >= 2
    /\ messages[Len(messages)].message = "Conversation completed"
    /\ messages[Len(messages) - 1].message = "Conversation completed"

\* C3: whenever the stage is not initial, the conversation chain is set.
C3_IndexPresentOutsideInitial ==
    stage # "initial" => session_state.conversation # None

\* The stage is past initial after a run that an adapter failure ended.
C3_PastInitialAfterFailure ==
    /\ stage = "details"
    /\ raised = "GenerationError"
    /\ session_state.conversation # None

\* C4 as stated: once company_overview is set, no run assigns it again.
C4_OverviewAssignedOnce ==
    [][company_overview # None => ~OverviewAssigned']_vars

\* C4 as amended: company_overview is assigned by each successful
\* document-processing run, to the text the generator returned in that
\* run, and by nothing else; every other run leaves it unchanged.
C4_OverviewAssignedByUploadOnly ==
    [][IF OverviewAssigned'
       THEN /\ event'.widget = "Process PDFs"
            /\ company_overview' = OverviewReturned'
       ELSE company_overview' = company_overview]_vars

\* A second upload of the session replaced the overview.
C4_OverviewAssignedAgain ==
    /\ OverviewAssigned
    /\ company_overview = "Widgets."
    /\ \E i \in 1..Len(messages) :
          messages[i] = [role |-> "system",
                         message |-> "Acme Corp sells widgets."]

\* C5: a valid e-mail that was delivered is stored in the session's email,
\* so email is set whenever stage = complete.
C5_EmailRecorded ==
    /\ \A i \in CallsOf("mock_send_email") :
          session_state.email = Str(trace[i][2])
    /\ stage = "complete" => session_state.email # None

\* The last run clicked Confirm Email while the stage was collect_email:
\* EmailCollectionStage handled the click.
EmailSubmitted ==
    /\ event.widget = "Confirm Email"
    /\ CallsOf("mock_send_email") \cup CallsOf("st.error") # {}

\* C6: Confirm Email in collect_email with a valid address e appends the
\* user entry "Email provided: e" and right after it the system entry
\* "Company profile sent to e", and moves the stage to complete.
C6_ValidEmailLoggedAndComplete ==
    [][(/\ event'.widget = "Confirm Email"
        /\ stage = "collect_email"
        /\ validate_email(widgets.email))
          => LET e == Str(widgets.email)
                 n == Len(messages)
             IN /\ stage' = "complete"
                /\ Len(messages') >= n + 2
                /\ SubSeq(messages', 1, n) = messages
                /\ messages'[n + 1] =
                      [role |-> "user", message |-> "Email provided: " \o e]
                /\ messages'[n + 2] =
                      [role |-> "system",
                       message |-> "Company profile sent to " \o e]]_vars

\* user@example.com was submitted, delivered and logged.
C6_ValidEmailSubmitted ==
    /\ EmailSubmitted
    /\ stage = "complete"
    /\ trace = << <<"mock_send_email", user_example_com>> >>
    /\ \E i \in 1..(Len(messages) - 1) :
          /\ messages[i] = [role |-> "user",
                message |-> "Email provided: user@example.com"]
          /\ messages[i + 1] = [role |-> "system",
                message |-> "Company profile sent to user@example.com"]

\* C7: Confirm Email in collect_email with an address that fails
\* validation shows the validation error and leaves the session state as
\* it was: same stage, same message log.
C7_InvalidEmailChangesNothing ==
    [][(/\ event'.widget = "Confirm Email"
        /\ stage = "collect_email"
        /\ ~validate_email(widgets.email))
          => /\ session_state' = session_state
             /\ stage' = "collect_email"
             /\ messages' = messages
             /\ trace' = << <<"st.error",
                              "Please enter a valid email address.">> >>]_vars

\* bad-email was submitted and rejected.
C7_InvalidEmailSubmitted ==
    /\ EmailSubmitted
    /\ widgets.email = bad_email
    /\ CallsOf("st.error") # {}
    /\ stage = "collect_email"

\* C8: a non-empty question q entered in details, answered with a, appends
\* exactly (q, a) to chat_history and exactly the user entry q followed by
\* the system entry a to the message log; the chain is called once, with
\* the chat_history of before the question.
C8_AskAppendsExchange ==
    [][(/\ event'.widget = "user_question"
        /\ stage = "details"
        /\ event'.value # ""
        /\ raised' = "none")
          => LET q == event'.value
             IN \E a \in Answers :
                  /\ trace' = << <<"conversation", session_state.conversation,
                                   q, chat_history, a>> >>
                  /\ chat_history' = Append(chat_history, <<q, a>>)
                  /\ messages' = messages \o
                        <<[role |-> "user", message |-> q],
                          [role |-> "system", message |-> a]>>]_vars

\* A second question was answered: the chain was given the first exchange.
C8_SecondQuestionAnswered ==
    /\ event.widget = "user_question"
    /\ event.value # ""
    /\ raised = "none"
    /\ stage = "details"
    /\ Len(chat_history) = 2
    /\ CallsOf("conversation") # {}
    /\ trace[1][4] = <<chat_history[1]>>

\* C9: clearing the question input in details asks nothing: the chain is
\* not called and chat_history and the message log stay as they were.
C9_EmptyQuestionRejected ==
    [][(/\ event'.widget = "user_question"
        /\ stage = "details"
        /\ event'.value = "")
          => /\ CallsOf("conversation")' = {}
             /\ chat_history' = chat_history
             /\ messages' = messages]_vars

\* The question input was cleared after a question had been answered.
C9_EmptyQuestionEntered ==
    /\ event.widget = "user_question"
    /\ event.value = ""
    /\ stage = "details"
    /\ "user_question" \in rendered
    /\ Len(chat_history) >= 1

\* C10: the message log only grows at its end: over every run, the log of
\* before is an initial part of the log of after.
C10_LogAppendOnly ==
    [][IsPrefix(messages, messages')]_vars

\* A whole conversation, from upload to completion, has been logged.
C10_LogOfWholeConversation ==
    /\ stage = "complete"
    /\ Len(messages) >= 7
    /\ messages[1].message = "Company documents processed successfully!"
    /\ messages[Len(messages)].message = "Conversation completed"

-----------------------------------------------------------------------------
\* Number of entries of a message log whose text is text.
Count(log, text) ==
    Cardinality({i \in 1..Len(log) : log[i].message = text})

\* Number of entries the question asked in the last run put in the log (the
\* question, and the answer if the chain returned) whose text is the
\* current company_overview.
AskEntriesOfOverview ==
    Cardinality({i \in CallsOf("conversation") :
                    trace[i][3] = company_overview})
    + Cardinality({i \in CallsOf("conversation") :
                    Returned(i) /\ trace[i][5] = company_overview})

\* C11: drawing the Overview stage logs the overview text only when no
\* entry of the log has that text: over a run that draws it, apart from
\* what a question asked in the same run logs, the entries with the
\* overview's text stay as many as they were, or become one if there was
\* none. Drawn again and again, it leaves one entry.
C11_OverviewLoggedOnce ==
    [][("want_more" \in rendered')
          => LET before == Count(messages, company_overview')
                 after == Count(messages', company_overview')
                            - AskEntriesOfOverview'
             IN after <= (IF before >= 1 THEN before ELSE 1)]_vars

\* The Overview stage was drawn a second time for the same overview, which
\* is in the log once.
C11_OverviewDrawnAgain ==
    /\ event.widget = "Company Overview"
    /\ "want_more" \in rendered
    /\ company_overview = "Acme Corp sells widgets."
    /\ Count(messages, company_overview) = 1
    /\ Count(messages, "Want to know more about the company") = 2

-----------------------------------------------------------------------------
\* C12: "Conversation completed" is the final entry: in complete the log
\* holds it once, as its last entry (drawing the Complete stage again
\* appends nothing after it).
C12_CompletedLoggedOnceAndLast ==
    stage = "complete"
       => /\ Count(messages, "Conversation completed") = 1
          /\ messages[Len(messages)] =
                [role |-> "system", message |-> "Conversation completed"]

-----------------------------------------------------------------------------
\* The last run obeyed the full-profile button: the details block set the
\* stage to offer_profile and the profile offer was drawn.
FullProfileRequested ==
    /\ event.widget = "I'd like the full company profile"
    /\ "email_option" \in rendered

\* C13: the stage advances only on the user's confirmation: a successful
\* upload leaves the session in overview, and a request for the full
\* profile leaves it in offer_profile.
C13_RestsUntilConfirmed ==
    /\ (event.widget = "Process PDFs" /\ OverviewAssigned)
          => stage = "overview"
    /\ FullProfileRequested => stage = "offer_profile"

\* The same, for the request of the full profile alone.
C13_RestsInOfferProfile ==
    FullProfileRequested => stage = "offer_profile"

\* Edges of the linear transition table.
TableEdges ==
    {<<"initial", "overview">>, <<"overview", "details">>,
     <<"details", "offer_profile">>, <<"offer_profile", "collect_email">>,
     <<"collect_email", "complete">>}

\* C14: every change of stage follows one edge of the linear table.
C14_StageFollowsTable ==
    [][stage' # stage => <<stage, stage'>> \in TableEdges]_vars

-----------------------------------------------------------------------------
\* C15: when chunking or the index build raises during Process PDFs, the
\* run ends with that error and nothing is committed: the stage stays
\* initial and the chain, the processed flag, the overview and the message
\* log (the whole session state) are as before.
C15_FailedIngestionCommitsNothing ==
    [][(/\ event'.widget = "Process PDFs"
        /\ raised' \in {"IngestionError", "IndexError"})
          => /\ stage' = "initial"
             /\ session_state' = session_state
             /\ CallsOf("generate_company_overview")' = {}]_vars

\* A second upload of the session failed in the index build: the chain and
\* the overview of the first upload are still there.
C15_ReuploadFailed ==
    /\ event.widget = "Process PDFs"
    /\ raised = "IndexError"
    /\ stage = "initial"
    /\ session_state.processed_pdfs
    /\ session_state.conversation # None
    /\ company_overview # None
    /\ Len(messages) >= 3

-----------------------------------------------------------------------------
(* validate_email on its own: the function applied to every address of a  *)
(* bounded set.                                                            *)

\* Longest address built from EmailAlphabet.
MaxEmailLen == 7

\* Characters the enumerated addresses are made of: a letter, the two
\* separators and the newline.
EmailAlphabet == {"a", "@", ".", "\n"}

a_b_plus_c_sub_domain_io ==
    <<"a",".","b","+","c","@","s","u","b",".","d","o","m","a","i","n",".",
      "i","o">>
not_an_email == <<"n","o","t","-","a","n","-","e","m","a","i","l">>
a_b_c == <<"a","@","b",".","c">>

\* The addresses validate_email is applied to.
EmailInputs ==
    UNION {[1..k -> EmailAlphabet] : k \in 0..MaxEmailLen}
      \cup {user_example_com, a_b_plus_c_sub_domain_io, not_an_email, a_b_c}

InitEmail ==
    /\ session_state = session_defaults
    /\ \E e \in EmailInputs : widgets = [widget_defaults EXCEPT !.email = e]
    /\ rendered = {}
    /\ event = [widget |-> "load", value |-> ""]
    /\ trace = <<>>
    /\ raised = "none"

\* self.validate_email(email) on the address in the input.
ValidateEmail ==
    /\ event.widget = "load"
    /\ trace' = << <<"validate_email", widgets.email,
                     validate_email(widgets.email)>> >>
    /\ event' = [widget |-> "validate_email", value |-> ""]
    /\ UNCHANGED <<session_state, widgets, rendered, raised>>

NextEmail == ValidateEmail

SpecEmail == InitEmail /\ [][NextEmail]_vars

\* The characters of a sequence.
Chars(s) == {s[i] : i \in 1..Len(s)}

\* s is local @ domain . tld, with a non-empty local part of
\* [A-Za-z0-9._%+-], a non-empty domain of [A-Za-z0-9.-] and a tld of two
\* or more letters.
HasEmailForm(s) ==
    \E i \in 1..Len(s) : \E j \in 1..Len(s) :
       /\ i < j
       /\ s[i] = "@"
       /\ s[j] = "."
       /\ LET local == SubSeq(s, 1, i - 1)
              domain == SubSeq(s, i + 1, j - 1)
              tld == SubSeq(s, j + 1, Len(s))
          IN /\ Len(local) >= 1 /\ Chars(local) \subseteq LocalChars
             /\ Len(domain) >= 1 /\ Chars(domain) \subseteq DomainChars
             /\ Len(tld) >= 2 /\ Chars(tld) \subseteq TldChars

\* C16: validate_email accepts exactly the addresses of the form
\* local@domain.tld.
C16_AcceptsExactlyEmailForm ==
    event.widget = "validate_email"
       => (trace[1][3] <=> HasEmailForm(trace[1][2]))

\* The four addresses the specification names are decided as it says.
C16_NamedAddressesDecided ==
    event.widget = "validate_email"
       => /\ trace[1][2] \in {user_example_com, a_b_plus_c_sub_domain_io}
               => trace[1][3]
          /\ trace[1][2] \in {not_an_email, a_b_c} => ~trace[1][3]

\* On addresses without a newline, validate_email accepts exactly the form.
C16_ExactWithoutNewline ==
    (event.widget = "validate_email" /\ "\n" \notin Chars(trace[1][2]))
       => (trace[1][3] <=> HasEmailForm(trace[1][2]))

-----------------------------------------------------------------------------
\* The calls of the chain in the last run that returned an answer.
AnsweredCalls == {i \in CallsOf("conversation") : Returned(i)}

\* The question and the answer of the call that returned in the last run.
AnsweredExchange ==
    LET i == CHOOSE k \in AnsweredCalls : TRUE
    IN <<trace[i][3], trace[i][5]>>

-----------------------------------------------------------------------------
\* Positions of the log entries that ask wrote for a question: the user
\* entries whose text is a question (no other user entry of the program
\* has such a text).
AskedAt ==
    {i \in 1..Len(messages) :
        messages[i].role = "user" /\ messages[i].message \in Questions}

\* C18: the exchanges of chat_history are, in order, the questions of the
\* log, each directly followed by its answer as a system entry.
C18_HistoryAgreesWithLog ==
    /\ Cardinality(AskedAt) = Len(chat_history)
    /\ \A i \in AskedAt :
          /\ i < Len(messages)
          /\ messages[i + 1].role = "system"
          /\ chat_history[Cardinality({j \in AskedAt : j <= i})]
                = <<messages[i].message, messages[i + 1].message>>

-----------------------------------------------------------------------------
\* The log has the confirmation of a delivery to the address e.
SentTo(e) ==
    \E i \in 1..Len(messages) :
       messages[i] = [role |-> "system",
                      message |-> "Company profile sent to " \o Str(e)]

\* C19: complete is entered only by a run that delivered to an address
\* validate_email accepts, and in every state with stage = complete the
\* log has the confirmation "Company profile sent to e" for such an e.
C19_CompleteOnlyThroughValidEmail ==
    /\ [](stage = "complete"
            => \E e \in Emails : validate_email(e) /\ SentTo(e))
    /\ [][(stage # "complete" /\ stage' = "complete")
            => \E e \in Emails :
                  /\ validate_email(e)
                  /\ SentTo(e)'
                  /\ <<"mock_send_email", e>> \in
                        {trace'[i] : i \in CallsOf("mock_send_email")'}]_vars

\* Complete was entered by confirming user@example.com and then drawn
\* again: the confirmation is still in the log.
C19_CompleteAfterDelivery ==
    /\ stage = "complete"
    /\ SentTo(user_example_com)
    /\ Count(messages, "Conversation completed") = 2

-----------------------------------------------------------------------------
\* C20: whenever the processed flag is set the overview is set, so that the
\* Overview stage never logs a null overview.
C20_OverviewSetWhenProcessed ==
    /\ session_state.processed_pdfs => company_overview # None
    /\ \A i \in 1..Len(messages) : messages[i].message # None

\* The second half alone: no entry of the log has None as its text.
C20_NoNullOverviewLogged ==
    \A i \in 1..Len(messages) : messages[i].message # None

====
